---- MODULE Spec2Model ----
(***************************************************************************)
(* One-step binomial option pricer (src/OptionPricing.py).                 *)
(*                                                                         *)
(* The pricer works on IEEE-754 doubles (np.float64).  The model keeps the *)
(* exponent range of a double and its special values (Inf, NaN), and       *)
(* carries Digits significant decimal digits instead of 53 bits; every     *)
(* arithmetic result is rounded to nearest, ties to even, as the hardware  *)
(* does.  A number is a record [k, m, e]:                                  *)
(*   k = "fin": the value m * 10^e, with m = 0 (and e = 0) or              *)
(*              10^(Digits-1) <= |m| < 10^Digits;                          *)
(*   k = "inf": +Inf (m = 1) or -Inf (m = -1);   k = "nan": NaN.           *)
(***************************************************************************)
EXTENDS Integers, Sequences, FiniteSets, TLC

\* ------------------------------------------------------------------------
\* Floating point
\* ------------------------------------------------------------------------

\* significant decimal digits carried by a number
Digits == 6

\* largest and smallest decimal exponent of a finite non-zero double
\* (1.797e308 and 4.9e-324)
MaxExp10 == 308

MinExp10 == -324

P10 == <<1, 10, 100, 1000, 10000, 100000, 1000000, 10000000, 100000000, 1000000000>>

Pow10(n) == P10[n + 1]

Abs(n) == IF n < 0 THEN -n ELSE n

Sign(n) == IF n < 0 THEN -1 ELSE IF n > 0 THEN 1 ELSE 0

RECURSIVE NumDigits(_)
NumDigits(n) == IF n < 10 THEN 1 ELSE 1 + NumDigits(n \div 10)

Zero == [k |-> "fin", m |-> 0, e |-> 0]

Inf(s) == [k |-> "inf", m |-> s, e |-> 0]

NaN == [k |-> "nan", m |-> 0, e |-> 0]

IsNaN(a) == a.k = "nan"

IsInf(a) == a.k = "inf"

IsFinite(a) == a.k = "fin"

\* a normalised mantissa with the range check: overflow gives Inf, a value
\* below the smallest double gives 0
Pack(s, m, e) ==
    IF e + Digits - 1 > MaxExp10 THEN Inf(s)
    ELSE IF e + Digits - 1 < MinExp10 THEN Zero
    ELSE [k |-> "fin", m |-> s * m, e |-> e]

\* the double nearest to s * (n + f) * 10^e, where 0 <= f < 1 and f > 0
\* exactly when sticky; ties go to the even mantissa
Round(s, n, e, sticky) ==
    IF n = 0 THEN Zero
    ELSE LET nd == NumDigits(n)
         IN IF nd <= Digits
            THEN Pack(s, n * Pow10(Digits - nd), e - (Digits - nd))
            ELSE LET kk == nd - Digits
                     q == n \div Pow10(kk)
                     rem == n % Pow10(kk)
                     half == 5 * Pow10(kk - 1)
                     up == rem > half \/ (rem = half /\ (sticky \/ q % 2 = 1))
                     m1 == IF up THEN q + 1 ELSE q
                 IN IF m1 = Pow10(Digits)
                    THEN Pack(s, Pow10(Digits - 1), e + kk + 1)
                    ELSE Pack(s, m1, e + kk)

\* the double written m * 10^e (a literal such as 0.05 = Lit(5, -2))
Lit(m, e) == Round(Sign(m), Abs(m), e, FALSE)

One == Lit(1, 0)

FNeg(a) == IF IsNaN(a) THEN NaN ELSE [a EXCEPT !.m = -a.m]

\* order of two numbers neither of which is NaN: -1, 0 or 1
MagKey(a) == IF IsInf(a) THEN <<1000000, 1>> ELSE <<a.e, Abs(a.m)>>

Cmp(a, b) ==
    LET sa == Sign(a.m)
        sb == Sign(b.m)
        ka == MagKey(a)
        kb == MagKey(b)
    IN IF sa # sb THEN (IF sa < sb THEN -1 ELSE 1)
       ELSE IF sa = 0 THEN 0
       ELSE IF ka = kb THEN 0
       ELSE IF ka[1] < kb[1] \/ (ka[1] = kb[1] /\ ka[2] < kb[2]) THEN -sa
       ELSE sa

\* comparisons are false as soon as one side is NaN
FLt(a, b) == ~IsNaN(a) /\ ~IsNaN(b) /\ Cmp(a, b) < 0

FLe(a, b) == ~IsNaN(a) /\ ~IsNaN(b) /\ Cmp(a, b) <= 0

FEq(a, b) == ~IsNaN(a) /\ ~IsNaN(b) /\ Cmp(a, b) = 0

FMul(a, b) ==
    IF IsNaN(a) \/ IsNaN(b) THEN NaN
    ELSE IF IsInf(a) \/ IsInf(b)
         THEN (IF a.m = 0 \/ b.m = 0 THEN NaN ELSE Inf(Sign(a.m) * Sign(b.m)))
    ELSE IF a.m = 0 \/ b.m = 0 THEN Zero
    ELSE LET x == Abs(a.m)
             y == Abs(b.m)
             xh == x \div 1000
             xl == x % 1000
             yh == y \div 1000
             yl == y % 1000
             t == (xh * yl + xl * yh) * 1000 + xl * yl
             hi == xh * yh + t \div 1000000
             lo == t % 1000000
         IN Round(Sign(a.m) * Sign(b.m), hi * 1000 + lo \div 1000,
                  a.e + b.e + 3, lo % 1000 # 0)

\* n further digits of the quotient of r by d
RECURSIVE LongDiv(_, _, _, _)
LongDiv(r, d, q, n) ==
    IF n = 0 THEN <<q, r>>
    ELSE LongDiv((r * 10) % d, d, q * 10 + (r * 10) \div d, n - 1)

FDiv(a, b) ==
    IF IsNaN(a) \/ IsNaN(b) THEN NaN
    ELSE IF IsInf(a)
         THEN (IF IsInf(b) THEN NaN
               ELSE Inf(a.m * (IF b.m < 0 THEN -1 ELSE 1)))
    ELSE IF IsInf(b) THEN Zero
    ELSE IF b.m = 0 THEN (IF a.m = 0 THEN NaN ELSE Inf(Sign(a.m)))
    ELSE IF a.m = 0 THEN Zero
    ELSE LET x == Abs(a.m)
             y == Abs(b.m)
             qr == LongDiv(x % y, y, x \div y, 8)
         IN Round(Sign(a.m) * Sign(b.m), qr[1], a.e - b.e - 8, qr[2] # 0)

FAdd(a, b) ==
    IF IsNaN(a) \/ IsNaN(b) THEN NaN
    ELSE IF IsInf(a) THEN (IF IsInf(b) /\ b.m # a.m THEN NaN ELSE a)
    ELSE IF IsInf(b) THEN b
    ELSE IF a.m = 0 THEN b
    ELSE IF b.m = 0 THEN a
    ELSE LET big == IF a.e >= b.e THEN a ELSE b
             sml == IF a.e >= b.e THEN b ELSE a
             diff == big.e - sml.e
             A == Abs(big.m) * 1000
             B0 == Abs(sml.m) * 1000
             Bq == IF diff > 9 THEN 0 ELSE B0 \div Pow10(diff)
             st == IF diff > 9 THEN TRUE ELSE B0 % Pow10(diff) # 0
             sb == Sign(big.m)
         IN IF sb = Sign(sml.m) THEN Round(sb, A + Bq, big.e - 3, st)
            ELSE IF A = Bq /\ ~st THEN Zero
            ELSE IF A > Bq
                 THEN Round(sb, IF st THEN A - Bq - 1 ELSE A - Bq, big.e - 3, st)
            ELSE Round(-sb, Bq - A, big.e - 3, FALSE)

FSub(a, b) == FAdd(a, FNeg(b))

\* one more digit x of a square root: root r, remainder rem (the next pair of
\* digits already brought down)
SqrtDigit(r, rem) ==
    CHOOSE x \in 0..9 :
        /\ (20 * r + x) * x <= rem
        /\ x = 9 \/ (20 * r + x + 1) * (x + 1) > rem

RECURSIVE SqrtPairs(_, _, _)
SqrtPairs(pairs, r, rem) ==
    IF pairs = <<>> THEN <<r, rem>>
    ELSE LET cur == rem * 100 + Head(pairs)
             x == SqrtDigit(r, cur)
         IN SqrtPairs(Tail(pairs), 10 * r + x, cur - (20 * r + x) * x)

\* np.sqrt
FSqrt(a) ==
    IF IsNaN(a) THEN NaN
    ELSE IF a.m < 0 THEN NaN
    ELSE IF IsInf(a) THEN a
    ELSE IF a.m = 0 THEN Zero
    ELSE LET odd == a.e % 2 = 1
             M == IF odd THEN a.m * 10 ELSE a.m
             E == IF odd THEN a.e - 1 ELSE a.e
             rr == SqrtPairs(<<M \div 1000000, (M \div 10000) % 100,
                               (M \div 100) % 100, M % 100, 0, 0, 0, 0>>, 0, 0)
         IN Round(1, rr[1], (E \div 2) - 4, rr[2] # 0)

\* the element of a one-element set: a value computed once, then used
The(s) == CHOOSE v \in s : TRUE

\* e^1, e^2, e^4, ..., e^512
ExpTable ==
    << Lit(271828, -5), Lit(738906, -5), Lit(545982, -4), Lit(298096, -2),
       Lit(888611, 1), Lit(789630, 8), Lit(623515, 22), Lit(388771, 50),
       Lit(151143, 106), Lit(228441, 217) >>

\* e^n for an integer 0 <= n < 1024, from the binary digits of n
RECURSIVE PowE(_, _)
PowE(n, i) ==
    IF n = 0 THEN One
    ELSE IF n % 2 = 1 THEN FMul(ExpTable[i], PowE(n \div 2, i + 1))
    ELSE PowE(n \div 2, i + 1)

\* terms of the exponential series kept for an argument below 1
TaylorTerms == 11

\* 1 + f (1 + f/2 (1 + f/3 (...)))
RECURSIVE Horner(_, _, _)
Horner(f, j, acc) ==
    IF j = 0 THEN acc
    ELSE The({ Horner(f, j - 1, t) :
               t \in {FAdd(One, FDiv(FMul(f, acc), Lit(j, 0)))} })

\* np.exp: the argument is split into its integer part n and its fraction f,
\* e^x = e^n * e^f for x > 0 and e^(-f) / e^n for x < 0
FExp(a) ==
    IF IsNaN(a) THEN NaN
    ELSE IF IsInf(a) THEN (IF a.m > 0 THEN a ELSE Zero)
    ELSE IF a.m = 0 THEN One
    ELSE LET am == Abs(a.m)
             n == IF a.e >= 0 THEN 1024
                  ELSE IF -a.e > 9 THEN 0
                  ELSE am \div Pow10(-a.e)
             f == IF a.e >= 0 THEN Zero
                  ELSE IF -a.e > 9 THEN Lit(am, a.e)
                  ELSE Lit(am % Pow10(-a.e), a.e)
         IN IF n >= 1024 THEN (IF a.m > 0 THEN Inf(1) ELSE Zero)
            ELSE IF a.m > 0 THEN FMul(PowE(n, 1), Horner(f, TaylorTerms, One))
            ELSE FDiv(Horner(FNeg(f), TaylorTerms, One), PowE(n, 1))

\* round(x, 2) of a numpy double: to the nearest multiple of 0.01, ties to even
Round2(a) ==
    IF ~IsFinite(a) THEN a
    ELSE IF a.e >= -2 THEN a
    ELSE LET kk == -2 - a.e
         IN IF kk > 7 THEN Zero
            ELSE LET am == Abs(a.m)
                     q == am \div Pow10(kk)
                     rem == am % Pow10(kk)
                     half == 5 * Pow10(kk - 1)
                     up == rem > half \/ (rem = half /\ q % 2 = 1)
                 IN Round(Sign(a.m), IF up THEN q + 1 ELSE q, -2, FALSE)

\* faulty variant of max: the first argument, never clipped at the second
PyMaxFirst(a, b) == a

\* Python's max(a, b): b when b > a, otherwise a
PyMax(a, b) == IF FLt(a, b) THEN b ELSE a

\* the floating-point conditions numpy reports as a RuntimeWarning for an
\* operation at a source line: an infinite result of finite operands
\* (overflow), a NaN result of operands none of which is NaN (invalid)
FpFlags(line, res, ops) ==
    IF IsInf(res) /\ \A o \in ops : IsFinite(o) THEN {<<line, "overflow">>}
    ELSE IF IsNaN(res) /\ \A o \in ops : ~IsNaN(o) THEN {<<line, "invalid">>}
    ELSE {}

\* ------------------------------------------------------------------------
\* binomial_one_step
\* ------------------------------------------------------------------------

\* a local variable that has not been assigned; the absent value of a call
\* that raised
Unbound == [k |-> "unbound", m |-> 0, e |-> 0]

NoValue == [k |-> "none", m |-> 0, e |-> 0]

MsgOptionType == "option_type must be 'call' or 'put'"

MsgPositive == "S, K, T, sigma must be positive"

MsgEqual == "u and d factors are equal; check parameters"

MsgArbitrage == "No-arbitrage condition violated: p must be between 0 and 1"

Raise(msg) == [kind |-> "raise", exc |-> "ValueError", msg |-> msg, value |-> NoValue]

Return(v) == [kind |-> "return", exc |-> "", msg |-> "", value |-> v]

\* no call made yet, or the call still running
NoOutcome == [kind |-> "none", exc |-> "", msg |-> "", value |-> NoValue]

\* faulty variant of the option-type check: every option type accepted
AnyOptionType(option_type) == TRUE

\* option_type in ['call', 'put']
ValidOptionType(option_type) == option_type \in {"call", "put"}

\* faulty variant of the positivity check: zero accepted
NonPositiveStrict(S, K, T, sigma) ==
    FLt(S, Zero) \/ FLt(K, Zero) \/ FLt(T, Zero) \/ FLt(sigma, Zero)

\* faulty variant of the positivity check: sigma left unchecked
NonPositiveNoSigma(S, K, T, sigma) ==
    FLe(S, Zero) \/ FLe(K, Zero) \/ FLe(T, Zero)

\* S <= 0 or K <= 0 or T <= 0 or sigma <= 0
NonPositive(S, K, T, sigma) ==
    FLe(S, Zero) \/ FLe(K, Zero) \/ FLe(T, Zero) \/ FLe(sigma, Zero)

\* faulty variant of the degeneracy check: never raised
NeverEqual(u, d) == FALSE

\* u == d
FactorsEqual(u, d) == FEq(u, d)

\* faulty variant of the payoff: the call payoff for either option type
PayoffOfCall(option_type, S_x, K) == PyMax(FSub(S_x, K), Zero)

\* max(S_x - K, 0) for a call, max(K - S_x, 0) for a put
Payoff(option_type, S_x, K) ==
    IF option_type = "call" THEN PyMax(FSub(S_x, K), Zero)
    ELSE PyMax(FSub(K, S_x), Zero)

\* p < 0 or p > 1
ProbabilityOutOfRange(p) == FLt(p, Zero) \/ FLt(One, p)

\* The frame of a call on entry: the arguments, the position (the source line
\* about to run, "done" after a return or a raise), the local variables, the
\* intermediate values of the expressions, and the outcome.
Frame(S, K, T, r, sigma, option_type) ==
    [S |-> S, K |-> K, T |-> T, r |-> r, sigma |-> sigma,
     option_type |-> option_type, line |-> "22", outcome |-> NoOutcome,
     u |-> Unbound, d |-> Unbound, S_u |-> Unbound, S_d |-> Unbound,
     f_u |-> Unbound, f_d |-> Unbound, p |-> Unbound,
     discount |-> Unbound, option_price |-> Unbound,
     sqrt_T |-> Unbound, x_u |-> Unbound, x_d |-> Unbound,
     r_T |-> Unbound, exp_r_T |-> Unbound, num |-> Unbound, den |-> Unbound,
     neg_r_T |-> Unbound, p_f_u |-> Unbound, one_minus_p |-> Unbound,
     q_f_d |-> Unbound, sum |-> Unbound]

\* raise ValueError(msg)
Raising(c, msg) == [c EXCEPT !.outcome = Raise(msg), !.line = "done"]

\* Each operator below runs the statements of the named source lines on the
\* frame c of a call that has neither returned nor raised, and yields the
\* frame after them.

\* lines 22-25: the two validation gates
Line22(c) ==
    IF ~ValidOptionType(c.option_type) THEN Raising(c, MsgOptionType)
    ELSE IF NonPositive(c.S, c.K, c.T, c.sigma) THEN Raising(c, MsgPositive)
    ELSE [c EXCEPT !.line = "28"]

\* line 28: u = np.exp(sigma * np.sqrt(T))
Line28(c) ==
    The({ The({ [c EXCEPT !.sqrt_T = sq, !.x_u = x, !.u = FExp(x), !.line = "29"] :
                x \in {FMul(c.sigma, sq)} }) :
          sq \in {FSqrt(c.T)} })

\* line 29: d = np.exp(-sigma * np.sqrt(T))
Line29(c) ==
    The({ [c EXCEPT !.x_d = x, !.d = FExp(x), !.line = "31"] :
          x \in {FMul(FNeg(c.sigma), FSqrt(c.T))} })

\* lines 31-32: if u == d: raise
Line31(c) ==
    IF FactorsEqual(c.u, c.d) THEN Raising(c, MsgEqual)
    ELSE [c EXCEPT !.line = "35"]

\* lines 35-44: the terminal prices and the payoffs
Line35(c) ==
    The({ The({ [c EXCEPT !.S_u = su, !.S_d = sd,
                          !.f_u = Payoff(c.option_type, su, c.K),
                          !.f_d = Payoff(c.option_type, sd, c.K),
                          !.line = "47"] :
                sd \in {FMul(c.S, c.d)} }) :
          su \in {FMul(c.S, c.u)} })

\* line 47: p = (np.exp(r * T) - d) / (u - d)
Line47(c) ==
    The({ The({ The({ [c EXCEPT !.r_T = rt, !.exp_r_T = ex, !.num = nd[1],
                                !.den = nd[2], !.p = FDiv(nd[1], nd[2]),
                                !.line = "49"] :
                      nd \in {<<FSub(ex, c.d), FSub(c.u, c.d)>>} }) :
                ex \in {FExp(rt)} }) :
          rt \in {FMul(c.r, c.T)} })

\* lines 49-50: if p < 0 or p > 1: raise
Line49(c) ==
    IF ProbabilityOutOfRange(c.p) THEN Raising(c, MsgArbitrage)
    ELSE [c EXCEPT !.line = "53"]

\* line 53: discount = np.exp(-r * T)
Line53(c) ==
    The({ [c EXCEPT !.neg_r_T = x, !.discount = FExp(x), !.line = "54"] :
          x \in {FMul(FNeg(c.r), c.T)} })

\* line 54: option_price = discount * (p * f_u + (1 - p) * f_d)
Line54(c) ==
    The({ The({ The({ [c EXCEPT !.p_f_u = pq[1], !.one_minus_p = pq[2],
                                !.q_f_d = qf, !.sum = sm,
                                !.option_price = FMul(c.discount, sm),
                                !.line = "56"] :
                      sm \in {FAdd(pq[1], qf)} }) :
                qf \in {FMul(pq[2], c.f_d)} }) :
          pq \in {<<FMul(c.p, c.f_u), FSub(One, c.p)>>} })

\* line 56: return round(option_price, 2)
Line56(c) == [c EXCEPT !.outcome = Return(Round2(c.option_price)), !.line = "done"]

\* the statements after a gate run only when the gate did not raise
Then(c, next) == IF c.line = "done" THEN c ELSE next

\* the body, run to its return or raise
Body(c0) ==
    The({ Then(c1,
      The({ Then(c2,
        The({ Then(c3,
          The({ Line56(c4) : c4 \in {Line54(Line53(c3))} })) :
          c3 \in {Line49(Line47(Line35(c2)))} })) :
        c2 \in {Line31(Line29(Line28(c1)))} })) :
      c1 \in {Line22(c0)} })

\* the warnings of the operations a call ran (an operation that did not run
\* left its result unbound)
Warnings(c) ==
    FpFlags(28, c.x_u, {c.sigma, c.sqrt_T}) \cup FpFlags(28, c.u, {c.x_u})
    \cup FpFlags(29, c.x_d, {c.sigma, c.sqrt_T}) \cup FpFlags(29, c.d, {c.x_d})
    \cup FpFlags(35, c.S_u, {c.S, c.u}) \cup FpFlags(36, c.S_d, {c.S, c.d})
    \cup FpFlags(47, c.exp_r_T, {c.r_T})
    \cup FpFlags(47, c.num, {c.exp_r_T, c.d}) \cup FpFlags(47, c.den, {c.u, c.d})
    \cup FpFlags(47, c.p, {c.num, c.den})
    \cup FpFlags(53, c.discount, {c.neg_r_T})
    \cup FpFlags(54, c.p_f_u, {c.p, c.f_u})
    \cup FpFlags(54, c.one_minus_p, {One, c.p})
    \cup FpFlags(54, c.q_f_d, {c.one_minus_p, c.f_d})
    \cup FpFlags(54, c.sum, {c.p_f_u, c.q_f_d})
    \cup FpFlags(54, c.option_price, {c.discount, c.sum})

\* A call: its outcome (a returned price or a raised ValueError), the frame
\* as the call left it, and the floating-point warnings numpy issued on the
\* way (source line, condition).
binomial_one_step(S, K, T, r, sigma, option_type) ==
    The({ [outcome |-> c.outcome, frame |-> c, warns |-> Warnings(c)] :
          c \in {Body(Frame(S, K, T, r, sigma, option_type))} })

\* ------------------------------------------------------------------------
\* The interpreter: the module file, its namespace, the standard streams
\* ------------------------------------------------------------------------

\* inputs of the calls ("straddle": an option type the function rejects)
OptionTypes == {"call", "put", "straddle"}

SValues == {Lit(-100, 0), Zero, Lit(100, 0), Lit(1, 17)}

KValues == {Lit(-50, 0), Zero, Lit(50, 0), Lit(100, 0), Lit(150, 0), Lit(1, 17)}

TValues == {Lit(-1, 0), Zero, Lit(1, 0), Lit(4, 0)}

rValues == {Lit(-2, -1), Zero, Lit(5, -2), Lit(2, -1), Lit(1000, 0)}

sigmaValues == {Lit(-2, -1), Zero, Lit(1, -20), Lit(2, -1), Lit(1000, 0)}

Inputs == [S : SValues, K : KValues, T : TValues, r : rValues, sigma : sigmaValues]

\* largest number of calls made in one interpreter session
MaxCalls == 2

\* the literals of the example usage
ExampleArgs ==
    [S |-> Lit(100, 0), K |-> Lit(100, 0), T |-> Lit(1, 0),
     r |-> Lit(5, -2), sigma |-> Lit(2, -1)]

\* the first logical line of the file, as the tokenizer sees it
HeaderTokens == <<"Option", "Pricing", "Binomial">>

\* a line of NAME tokens alone is a statement (an expression statement) only
\* when it is a single name
IsStatement(tokens) == Len(tokens) <= 1

SourceCompiles == IsStatement(HeaderTokens)

NoCall == [option_type |-> "", outcome |-> NoOutcome, frame |-> Frame(Unbound, Unbound, Unbound, Unbound, Unbound, "")]

UnboundGlobals ==
    [S |-> Unbound, K |-> Unbound, T |-> Unbound, r |-> Unbound,
     sigma |-> Unbound, call_price |-> Unbound, put_price |-> Unbound]

CallLine == "European Call Price (1-step): $"

PutLine == "European Put Price (1-step): $"

VARIABLES
    args,              \* the value tuple (S, K, T, r, sigma) the caller prices
    last,              \* the latest call: option type, outcome, locals
    first,             \* per option type, the outcome of the first call with it
    calls,             \* number of calls made
    globals,           \* module-level S, K, T, r, sigma, call_price, put_price
    warning_registry,  \* warnings already shown (the module's registry)
    stderr,            \* what was written to standard error
    stdout,            \* what was written to standard output
    proc               \* the interpreter process

vars == <<args, last, first, calls, globals, warning_registry, stderr, stdout, proc>>

Init ==
    /\ args \in Inputs
    /\ last = NoCall
    /\ first = [ot \in OptionTypes |-> NoOutcome]
    /\ calls = 0
    /\ globals = UnboundGlobals
    /\ warning_registry = {}
    /\ stderr = <<>>
    /\ stdout = <<>>
    /\ proc = [state |-> "not_run", exit_code |-> -1]

\* warnings in the order the lines run
WarnKey(w) == 2 * w[1] + (IF w[2] = "overflow" THEN 0 ELSE 1)

RECURSIVE InOrder(_)
InOrder(ws) ==
    IF ws = {} THEN <<>>
    ELSE LET w == CHOOSE v \in ws : \A o \in ws : WarnKey(v) <= WarnKey(o)
         IN <<w>> \o InOrder(ws \ {w})

\* A caller holding the function calls it on its value tuple. A warning is
\* printed the first time its (line, condition) occurs and recorded in the
\* registry.
Call(option_type) ==
    /\ proc.state = "not_run"
    /\ calls < MaxCalls
    /\ \E res \in {binomial_one_step(args.S, args.K, args.T, args.r, args.sigma,
                                      option_type)} :
          /\ last' = [option_type |-> option_type, outcome |-> res.outcome,
                      frame |-> res.frame]
          /\ first' = IF first[option_type] = NoOutcome
                      THEN [first EXCEPT ![option_type] = res.outcome]
                      ELSE first
          /\ stderr' = stderr \o InOrder(res.warns \ warning_registry)
          /\ warning_registry' = warning_registry \cup res.warns
    /\ calls' = calls + 1
    /\ UNCHANGED <<args, globals, stdout, proc>>

\* Direct invocation of the file: the whole file is compiled before its first
\* statement runs; then the example usage assigns the literals, prices the
\* call and the put, and prints the two lines.
RunModule ==
    /\ proc.state = "not_run"
    /\ calls = 0
    /\ IF ~SourceCompiles
       THEN /\ proc' = [state |-> "exited", exit_code |-> 1]
            /\ stderr' = Append(stderr, <<1, "SyntaxError">>)
            /\ UNCHANGED <<globals, stdout, warning_registry>>
       ELSE \E g \in {[UnboundGlobals EXCEPT !.S = ExampleArgs.S,
                           !.K = ExampleArgs.K, !.T = ExampleArgs.T,
                           !.r = ExampleArgs.r, !.sigma = ExampleArgs.sigma]} :
            \E c \in {binomial_one_step(g.S, g.K, g.T, g.r, g.sigma, "call")} :
               IF c.outcome.kind = "raise"
               THEN /\ globals' = g
                    /\ proc' = [state |-> "exited", exit_code |-> 1]
                    /\ warning_registry' = warning_registry \cup c.warns
                    /\ stderr' = stderr \o InOrder(c.warns) \o <<<<65, "ValueError">>>>
                    /\ UNCHANGED stdout
               ELSE \E q \in {binomial_one_step(g.S, g.K, g.T, g.r, g.sigma, "put")} :
                    \E ws \in {InOrder(c.warns \cup q.warns)} :
                       IF q.outcome.kind = "raise"
                       THEN /\ globals' = [g EXCEPT !.call_price = c.outcome.value]
                            /\ proc' = [state |-> "exited", exit_code |-> 1]
                            /\ warning_registry' = warning_registry \cup c.warns \cup q.warns
                            /\ stderr' = stderr \o ws \o <<<<66, "ValueError">>>>
                            /\ UNCHANGED stdout
                       ELSE /\ globals' = [g EXCEPT !.call_price = c.outcome.value,
                                                    !.put_price = q.outcome.value]
                            /\ proc' = [state |-> "exited", exit_code |-> 0]
                            /\ warning_registry' = warning_registry \cup c.warns \cup q.warns
                            /\ stderr' = stderr \o ws
                            /\ stdout' = stdout \o
                                 <<[text |-> CallLine, value |-> c.outcome.value],
                                   [text |-> PutLine, value |-> q.outcome.value]>>
    /\ UNCHANGED <<args, last, first, calls>>

Next ==
    \/ \E option_type \in OptionTypes : Call(option_type)
    \/ RunModule

Spec == Init /\ [][Next]_vars

\* ------------------------------------------------------------------------
\* Properties
\* ------------------------------------------------------------------------

\* |a|
FAbs(a) == IF IsNaN(a) THEN NaN ELSE [a EXCEPT !.m = Abs(a.m)]

\* a call has been made by a caller holding the function
Called == calls > 0

\* the latest call returned a value
Returned == Called /\ last.outcome.kind = "return"

\* S > 0, K > 0, T > 0, sigma > 0 for the value tuple being priced
AllPositive ==
    FLt(Zero, args.S) /\ FLt(Zero, args.K) /\ FLt(Zero, args.T) /\ FLt(Zero, args.sigma)

\* C1: a call whose option_type is neither 'call' nor 'put' raises the
\* ValueError of the option-type check and returns no price, whatever S, K, T,
\* r and sigma are (non-positive values included).
C1_OptionTypeGateFirst ==
    (Called /\ last.option_type \notin {"call", "put"})
        => /\ last.outcome = Raise(MsgOptionType)
           /\ last.outcome.value = NoValue

\* a 'straddle' priced on a tuple whose S is not positive
C1_Witness ==
    /\ Called
    /\ last.option_type = "straddle"
    /\ FLe(args.S, Zero)
    /\ last.outcome.msg = MsgOptionType

\* C2: with a valid option_type, a tuple with one of S, K, T, sigma <= 0
\* raises the ValueError of the positivity check and returns no price; a
\* tuple with all four > 0 never raises either validation error, for
\* negative, zero and positive r.
C2_PositivityGate ==
    (Called /\ last.option_type \in {"call", "put"})
        => /\ ~AllPositive => last.outcome = Raise(MsgPositive)
           /\ AllPositive => last.outcome.msg \notin {MsgOptionType, MsgPositive}

\* a call with T = 0 and the other three positive
C2_Witness ==
    /\ Called
    /\ last.option_type \in {"call", "put"}
    /\ args.T = Zero
    /\ FLt(Zero, args.S) /\ FLt(Zero, args.K) /\ FLt(Zero, args.sigma)
    /\ last.outcome = Raise(MsgPositive)

\* C3: a price returned for a valid tuple is >= 0.
C3_PriceNonNegative ==
    (Returned /\ last.option_type \in {"call", "put"} /\ AllPositive)
        => FLe(Zero, last.outcome.value)

\* C4: a price is returned only when 0 <= p <= 1; a tuple that passes the
\* earlier gates with p < 0 or p > 1 raises the no-arbitrage ValueError; p = 0
\* and p = 1 are accepted.
C4_ProbabilityGate ==
    /\ Returned => (FLe(Zero, last.frame.p) /\ FLe(last.frame.p, One))
    /\ (Called /\ last.frame.p # Unbound)
          => IF FLt(last.frame.p, Zero) \/ FLt(One, last.frame.p)
             THEN last.outcome = Raise(MsgArbitrage)
             ELSE last.outcome.kind = "return"

\* S - K * exp(-r * T) for the value tuple being priced
ParityGap == FSub(args.S, FMul(args.K, FExp(FMul(FNeg(args.r), args.T))))

\* |call - put - (S - K * exp(-r * T))| for the two rounded prices
ParityDeviation ==
    FAbs(FSub(FSub(first["call"].value, first["put"].value), ParityGap))

\* the call and the put have both been priced on the tuple
BothPriced == first["call"].kind = "return" /\ first["put"].kind = "return"

\* C5 (as stated): for every tuple on which both the call and the put are
\* priced, |call - put - (S - K*exp(-r*T))| <= 0.01.
C5_ParityEveryTuple == BothPriced => FLe(ParityDeviation, Lit(1, -2))

\* C5 (amended): on the example tuple S = 100, K = 100, T = 1, r = 0.05,
\* sigma = 0.2 the call is priced 12.16, the put 7.29, and the two rounded
\* prices satisfy |call - put - (S - K*exp(-r*T))| <= 0.01.
C5_ParityOnExample ==
    (BothPriced /\ args = ExampleArgs)
        => /\ first["call"].value = Lit(1216, -2)
           /\ first["put"].value = Lit(729, -2)
           /\ FLe(ParityDeviation, Lit(1, -2))

\* both options priced on the example tuple
C5_Witness ==
    /\ BothPriced
    /\ args = ExampleArgs
    /\ FLt(Zero, first["put"].value)

\* C6: a call changes nothing outside the function and does no I/O: the
\* standard streams, the warning registry and the module-level names are as
\* they were before the first call, and a repeated call with the same value
\* tuple gives the outcome of the first one.
C6_PureAndDeterministic ==
    proc.state = "not_run"
        => /\ stderr = <<>>
           /\ stdout = <<>>
           /\ warning_registry = {}
           /\ globals = UnboundGlobals
           /\ Called => last.outcome = first[last.option_type]

\* C7: direct invocation prices the example as a call, then as a put, prints
\* the two lines and exits with code 0.
C7_PrintsTwoLinesExitZero ==
    proc.state = "exited"
        => /\ proc.exit_code = 0
           /\ Len(stdout) = 2
           /\ stdout[1].text = CallLine
           /\ stdout[2].text = PutLine
           /\ globals.call_price = stdout[1].value
           /\ globals.put_price = stdout[2].value

\* the four messages of the raise statements
Messages == {MsgOptionType, MsgPositive, MsgEqual, MsgArbitrage}

\* C8: a call ends either with a returned value or with a ValueError
\* carrying one of the four messages and no value; the four messages are
\* pairwise different, so the message tells which gate failed; the gates are
\* reported in the order option type, positivity, u == d, p outside [0, 1],
\* each one only when the earlier ones passed.
C8_OneOutcomeInGateOrder ==
    Called =>
        /\ last.frame.line = "done"
        /\ \/ last.outcome.kind = "return" /\ last.outcome.value # NoValue
           \/ /\ last.outcome.kind = "raise"
              /\ last.outcome.msg \in Messages
              /\ last.outcome.value = NoValue
        /\ last.outcome =
             IF last.option_type \notin {"call", "put"} THEN Raise(MsgOptionType)
             ELSE IF ~AllPositive THEN Raise(MsgPositive)
             ELSE IF FEq(last.frame.u, last.frame.d) THEN Raise(MsgEqual)
             ELSE IF FLt(last.frame.p, Zero) \/ FLt(One, last.frame.p)
                  THEN Raise(MsgArbitrage)
             ELSE Return(Round2(last.frame.option_price))
        /\ Cardinality(Messages) = 4

\* sigma = 0 with a valid option type: the positivity gate is violated and,
\* were it skipped, u == d would be too; the earlier gate is the one reported
C8_Witness ==
    /\ Called
    /\ last.option_type \in {"call", "put"}
    /\ args.sigma = Zero
    /\ FLt(Zero, args.S) /\ FLt(Zero, args.K) /\ FLt(Zero, args.T)
    /\ last.outcome.msg = MsgPositive
    /\ last.frame.u = Unbound

\* a call was priced with both terminal prices at or above the strike
InTheMoney ==
    Returned /\ last.option_type = "call" /\ FLe(args.K, last.frame.S_d)

\* a call was priced with both terminal prices at or below the strike
OutOfTheMoney ==
    Returned /\ last.option_type = "call" /\ FLe(last.frame.S_u, args.K)

\* C9 (as stated): in the money in both terminal states the unrounded price
\* equals S - K*exp(-r*T) and the returned price is that value rounded to 2
\* decimals; out of the money in both states the returned price is 0.
C9_DeepCallExact ==
    /\ InTheMoney => /\ last.frame.option_price = ParityGap
                     /\ last.outcome.value = Round2(ParityGap)
    /\ OutOfTheMoney => last.outcome.value = Zero

\* relative error allowed to a price computed in a handful of roundings
Tolerance == Lit(1, 2 - Digits)

\* C9 (amended): out of the money in both terminal states the returned price
\* is exactly 0; in the money in both states the two payoffs are the
\* unclipped S_u - K and S_d - K and the unrounded price agrees with
\* S - K*exp(-r*T) to within rounding error (a small multiple of the
\* precision, relative to S), not exactly.
C9_DeepCall ==
    /\ OutOfTheMoney => last.outcome.value = Zero
    /\ InTheMoney =>
          /\ last.frame.f_u = FSub(last.frame.S_u, args.K)
          /\ last.frame.f_d = FSub(last.frame.S_d, args.K)
          /\ FLe(FAbs(FSub(last.frame.option_price, ParityGap)),
                 FMul(Tolerance, args.S))

\* a deep in-the-money call (S = 100, K = 50) has been priced
C9_Witness ==
    /\ InTheMoney
    /\ args.S = Lit(100, 0)
    /\ args.K = Lit(50, 0)
    /\ FLt(Zero, last.outcome.value)

\* C10 (as stated): every tuple that passes the positivity gate has
\* d < 1 < u, so the u == d error is never raised.
C10_NeverDegenerate ==
    (Called /\ last.frame.u # Unbound)
        => /\ FLt(last.frame.d, One) /\ FLt(One, last.frame.u)
           /\ last.outcome.msg # MsgEqual

\* C10 (amended): every tuple that passes the positivity gate has
\* d <= 1 <= u; the u == d error is raised exactly when the two factors are
\* equal as doubles (sigma * sqrt(T) too small to move exp away from 1); p is
\* computed only with u - d > 0.
C10_FactorsOrdered ==
    (Called /\ last.frame.u # Unbound)
        => /\ FLe(last.frame.d, One) /\ FLe(One, last.frame.u)
           /\ (last.outcome.msg = MsgEqual) <=> FEq(last.frame.u, last.frame.d)
           /\ last.frame.p # Unbound
                 => /\ FLt(last.frame.d, last.frame.u)
                    /\ last.frame.den # Zero

\* a validated tuple (sigma > 0, T > 0) on which u == d
C10_Witness ==
    /\ Called
    /\ AllPositive
    /\ last.outcome.msg = MsgEqual
    /\ last.frame.u = One
====
